---- MODULE Spec2Model ----
(***************************************************************************)
(* Playback and playlist state core of the Vinyl Player                    *)
(* (src/src/reproductor_musica.py): PlaybackState, PlaylistManager and the *)
(* playback-control handlers of VinylPlayer, with pygame.mixer.music and   *)
(* time.time() as the environment.                                         *)
(*                                                                         *)
(* Floats are modelled as integers: one unit of `now' is one second, and   *)
(* every handler runs at one instant of the wall clock.                    *)
(***************************************************************************)
EXTENDS Integers, Sequences, FiniteSets, Bags, TLC

(***************************************************************************)
(* Bounds of the model.                                                    *)
(***************************************************************************)
\* longest playlist the player is driven to
MaxLen == 2
\* longest playlist the PlaylistManager alone is driven to
MaxLenPM == 3
\* wall clock at start-up (time.time() is never 0 on a real machine)
T0 == 1
\* seconds the wall clock may advance while the whole player is explored
Horizon == 1
\* seconds the wall clock may advance while the clock alone is explored
LongHorizon == 4
\* seconds the wall clock may advance while the logged controls are explored
LogHorizon == 2
\* longest time, in seconds, between the two clock reads of one _seek_end
MaxSeekLag == 1

\* the files the user can pick: supported ones (one with an upper-case
\* extension) and one the extension filter rejects
Files == {"a.mp3", "b.OGG", "n.txt"}
\* the files handed to the PlaylistManager when it is explored alone
FilesPM == {"a.mp3", "b.OGG", "c.wav", "n.txt"}

(***************************************************************************)
(* AudioFormats and the extension filter of add_files / add_folder.        *)
(***************************************************************************)
EXTENSIONS == {".mp3", ".ogg", ".wav", ".flac", ".mod", ".xm", ".it", ".s3m"}

\* Path(file).suffix
suffix(file) ==
    CASE file = "a.mp3" -> ".mp3"
      [] file = "b.OGG" -> ".OGG"
      [] file = "c.wav" -> ".wav"
      [] file = "n.txt" -> ".txt"

\* str.lower() on the suffixes above
lower(s) == IF s = ".OGG" THEN ".ogg" ELSE s

is_audio(file) == lower(suffix(file)) \in EXTENSIONS

(***************************************************************************)
(* List helpers (Python list operations).                                  *)
(***************************************************************************)
Range(s) == {s[i] : i \in 1..Len(s)}

\* del s[i] / s.pop(i), with i a 0-based index
del_at(s, i) == [k \in 1..(Len(s) - 1) |-> IF k <= i THEN s[k] ELSE s[k + 1]]

\* s.index(x): 0-based position of the first match
index_of(s, x) == (CHOOSE k \in 1..Len(s) : s[k] = x /\ \A j \in 1..(k - 1) : s[j] # x) - 1

\* the files of a list that pass the extension filter, in order
RECURSIVE accepted(_)
accepted(files) ==
    IF files = <<>> THEN <<>>
    ELSE IF is_audio(Head(files)) THEN <<Head(files)>> \o accepted(Tail(files))
    ELSE accepted(Tail(files))

\* sorted(indices, reverse=True) for a set of integers
RECURSIVE sorted_reverse(_)
sorted_reverse(S) ==
    IF S = {} THEN <<>>
    ELSE LET m == CHOOSE x \in S : \A y \in S : y <= x
         IN <<m>> \o sorted_reverse(S \ {m})

\* the results random.shuffle can leave in a list
Shuffles(s) ==
    LET n == Len(s)
        perms == {p \in [1..n -> 1..n] : \A i, j \in 1..n : p[i] = p[j] => i = j}
    IN {[i \in 1..n |-> s[p[i]]] : p \in perms}

(***************************************************************************)
(* PlaylistManager, as functions of the fields they read.                  *)
(***************************************************************************)
\* remove_loop without the branch `idx == self.current_index'
RECURSIVE remove_loop_keeps_cursor(_, _, _)
remove_loop_keeps_cursor(pl, ci, idxs) ==
    IF idxs = <<>> THEN [playlist |-> pl, current_index |-> ci]
    ELSE LET idx == Head(idxs) IN
         IF 0 <= idx /\ idx < Len(pl)
         THEN remove_loop_keeps_cursor(del_at(pl, idx),
                                       IF idx < ci THEN ci - 1 ELSE ci,
                                       Tail(idxs))
         ELSE remove_loop_keeps_cursor(pl, ci, Tail(idxs))

\* the loop of remove_items over the indices, highest first
RECURSIVE remove_loop(_, _, _)
remove_loop(pl, ci, idxs) ==
    IF idxs = <<>> THEN [playlist |-> pl, current_index |-> ci]
    ELSE LET idx == Head(idxs) IN
         IF 0 <= idx /\ idx < Len(pl)
         THEN remove_loop(del_at(pl, idx),
                          IF idx = ci THEN -1 ELSE IF idx < ci THEN ci - 1 ELSE ci,
                          Tail(idxs))
         ELSE remove_loop(pl, ci, Tail(idxs))

\* remove_items without the call of _update_original_order
remove_items_stale(pl, ci, indices) ==
    LET r == remove_loop(pl, ci, sorted_reverse(indices))
    IN [playlist |-> r.playlist,
        original_order |-> pl,
        current_index |-> IF r.playlist # <<>> /\ r.current_index >= Len(r.playlist)
                          THEN Len(r.playlist) - 1
                          ELSE r.current_index]

remove_items(pl, ci, indices) ==
    LET r == remove_loop(pl, ci, sorted_reverse(indices))
    IN [playlist |-> r.playlist,
        original_order |-> r.playlist,
        current_index |-> IF r.playlist # <<>> /\ r.current_index >= Len(r.playlist)
                          THEN Len(r.playlist) - 1
                          ELSE r.current_index]

\* _apply_shuffle, with sh the outcome of random.shuffle(temp_playlist)
apply_shuffle_temp(pl, ci) == IF ci >= 0 THEN del_at(pl, ci) ELSE pl

\* _apply_shuffle that moves the current track to the front but leaves
\* current_index where it was
apply_shuffle_keeps_index(pl, ci, sh) ==
    IF pl = <<>> THEN [playlist |-> pl, current_index |-> ci]
    ELSE IF ci >= 0 THEN [playlist |-> <<pl[ci + 1]>> \o sh, current_index |-> ci]
    ELSE [playlist |-> sh, current_index |-> ci]

apply_shuffle(pl, ci, sh) ==
    IF pl = <<>> THEN [playlist |-> pl, current_index |-> ci]
    ELSE IF ci >= 0 THEN [playlist |-> <<pl[ci + 1]>> \o sh, current_index |-> 0]
    ELSE [playlist |-> sh, current_index |-> ci]

\* _restore_original_order that leaves current_index where it was
restore_original_order_no_relocate(pl, oo, ci) ==
    IF oo = <<>> THEN [playlist |-> pl, current_index |-> ci]
    ELSE [playlist |-> oo, current_index |-> ci]

restore_original_order(pl, oo, ci) ==
    IF oo = <<>> THEN [playlist |-> pl, current_index |-> ci]
    ELSE [playlist |-> oo,
          current_index |-> IF ci >= 0 /\ pl[ci + 1] \in Range(oo)
                            THEN index_of(oo, pl[ci + 1])
                            ELSE ci]

\* get_next_index without the wrap-around
get_next_index_no_wrap(pl, ci, rm) ==
    IF pl = <<>> THEN -1
    ELSE IF rm = 1 THEN ci
    ELSE ci + 1

get_next_index(pl, ci, rm) ==
    IF pl = <<>> THEN -1
    ELSE IF rm = 1 THEN ci
    ELSE (ci + 1) % Len(pl)

\* get_prev_index without the wrap-around
get_prev_index_no_wrap(pl, ci, rm) ==
    IF pl = <<>> THEN -1
    ELSE IF rm = 1 THEN ci
    ELSE ci - 1

\* get_prev_index without the repeat-one branch
get_prev_index_ignores_repeat(pl, ci, rm) ==
    IF pl = <<>> THEN -1
    ELSE (ci - 1) % Len(pl)

get_prev_index(pl, ci, rm) ==
    IF pl = <<>> THEN -1
    ELSE IF rm = 1 THEN ci
    ELSE (ci - 1) % Len(pl)

(***************************************************************************)
(* State.                                                                  *)
(***************************************************************************)
VARIABLES
    playlist,        \* PlaylistManager.playlist
    original_order,  \* PlaylistManager.original_order
    current_index,   \* PlaylistManager.current_index
    repeat_mode,     \* PlaylistManager.repeat_mode: 0 off, 1 repeat one
    shuffle_mode,    \* PlaylistManager.shuffle_mode
    playback_state,  \* the PlaybackState object of the player
    mixer,           \* pygame.mixer.music: "idle", "playing" or "paused"
    mixer_track,     \* the file pygame.mixer.music holds, "" when none
    now,             \* time.time()
    offset,          \* history: position given by the last anchor reset
    played,          \* history: seconds of wall clock spent playing since it
    load_error,      \* the handler that ran last showed the "Load Error" box
    running,         \* root.mainloop() of main has not returned
    lastCall         \* history: the last call made on the PlaylistManager alone

pmvars == <<playlist, original_order, current_index, repeat_mode, shuffle_mode>>
vars == <<playlist, original_order, current_index, repeat_mode, shuffle_mode,
          playback_state, mixer, mixer_track, now, offset, played, load_error,
          running, lastCall>>

\* PlaybackState.reset
reset == [is_playing |-> FALSE, is_paused |-> FALSE, track_length |-> 0,
          start_time |-> 0, pause_accum |-> 0, last_pause |-> 0]

\* the phase of the clock, read off the two flags
Phase(ps) ==
    IF ~ps.is_playing THEN "Stopped"
    ELSE IF ps.is_paused THEN "Paused" ELSE "Playing"

max0(x) == IF x > 0 THEN x ELSE 0

\* _elapsed_time that reads the wall clock even while paused
elapsed_time_runs_paused(ps, t) ==
    IF ~ps.is_playing THEN 0
    ELSE max0((t - ps.start_time) - ps.pause_accum)

\* VinylPlayer._elapsed_time at wall-clock time t
elapsed_time(ps, t) ==
    IF ~ps.is_playing THEN 0
    ELSE IF ps.is_paused THEN max0((ps.last_pause - ps.start_time) - ps.pause_accum)
    ELSE max0((t - ps.start_time) - ps.pause_accum)

Elapsed == elapsed_time(playback_state, now)

\* pygame.mixer.music.get_busy()
get_busy(m) == m = "playing"

\* pygame.mixer.music.pause() / unpause() / play(start=...), as mixer states
mixer_pause(m) == IF m = "playing" THEN "paused" ELSE m
mixer_unpause(m) == IF m = "paused" THEN "playing" ELSE m

\* a call on the PlaylistManager: the method and the positions it was given
Call(name) == [op |-> name, sel |-> {}]

\* the log after the handler `name' ran: the handlers of the player are
\* logged once a log was started, the whole player runs without one
logged(name) == IF lastCall.op = "none" THEN lastCall ELSE Call(name)

\* what a handler leaves behind: the error box (shown is TRUE when its load
\* raised) and its name in the log
handled(name, shown) ==
    /\ load_error' = shown
    /\ lastCall' = logged(name)
    /\ UNCHANGED running

Init ==
    /\ playlist = <<>>
    /\ original_order = <<>>
    /\ current_index = -1
    /\ repeat_mode = 0
    /\ shuffle_mode = FALSE
    /\ playback_state = reset
    /\ mixer = "idle"
    /\ mixer_track = ""
    /\ now = T0
    /\ offset = 0
    /\ played = 0
    /\ load_error = FALSE
    /\ running = TRUE
    /\ lastCall = Call("none")

(***************************************************************************)
(* The clock transitions of the handlers, as functions of PlaybackState.   *)
(***************************************************************************)
\* play_pause, branch "playing and not paused"
pause_state(ps, t) == [ps EXCEPT !.is_paused = TRUE, !.last_pause = t]

\* the resume branch without the update of pause_accum
resume_state_forgets_pause(ps, t) == [ps EXCEPT !.is_paused = FALSE]

\* play_pause, branch "playing and paused"
resume_state(ps, t) ==
    [ps EXCEPT !.is_paused = FALSE, !.pause_accum = ps.pause_accum + (t - ps.last_pause)]

\* load_and_play after a successful load
loaded_state(ps, length, t) ==
    [is_playing |-> TRUE, is_paused |-> FALSE, track_length |-> length,
     start_time |-> t, pause_accum |-> 0, last_pause |-> 0]

\* load_and_play when pygame.mixer.music.load raises
load_failed_state(ps) == ps

\* _seek_end that never stamps last_pause
seek_state_no_restamp(ps, sec, t, t2) ==
    [ps EXCEPT !.start_time = t - sec, !.pause_accum = 0, !.last_pause = 0]

\* _seek_end that leaves the clock unpaused
seek_state_unpauses(ps, sec, t, t2) ==
    [ps EXCEPT !.start_time = t - sec, !.pause_accum = 0, !.last_pause = 0,
               !.is_paused = FALSE]

\* _seek_end past its guards: t is the clock read for start_time, t2 the
\* later read for last_pause, made only when the clock was paused
seek_state(ps, sec, t, t2) ==
    [ps EXCEPT !.start_time = t - sec, !.pause_accum = 0,
               !.last_pause = IF ps.is_paused THEN t2 ELSE 0]

\* what load_and_play(index) does: "skipped", "failed" or "ok"
load_outcome(index, pl, ok) ==
    IF index < 0 \/ index >= Len(pl) THEN "skipped"
    ELSE IF ~ok THEN "failed" ELSE "ok"

\* VinylPlayer.load_and_play(index) on playlist pl; res.ok: the load succeeds,
\* res.length: what _probe_length returns
load_and_play(index, pl, res) ==
    IF load_outcome(index, pl, res.ok) = "ok"
    THEN /\ playback_state' = loaded_state(playback_state, res.length, now)
         /\ mixer' = "playing"
         /\ mixer_track' = pl[index + 1]
         /\ offset' = 0
         /\ played' = 0
    ELSE /\ playback_state' = IF load_outcome(index, pl, res.ok) = "failed"
                              THEN load_failed_state(playback_state)
                              ELSE playback_state
         /\ UNCHANGED <<mixer, mixer_track, offset, played>>

\* stop that clears the two flags only and keeps the rest of the clock
stop_clears_flags_only ==
    /\ playback_state' = [playback_state EXCEPT !.is_playing = FALSE, !.is_paused = FALSE]
    /\ mixer' = "idle"
    /\ offset' = 0
    /\ played' = 0
    /\ UNCHANGED mixer_track

\* VinylPlayer.stop
stop ==
    /\ playback_state' = reset
    /\ mixer' = "idle"
    /\ offset' = 0
    /\ played' = 0
    /\ UNCHANGED mixer_track

\* what the backend and the duration probe can answer to one load_and_play
\* _probe_length: 0.0 when the length is unknown, else the length in seconds
ProbedLengths == {0, 2}

LoadResults ==
    {[ok |-> FALSE, length |-> 0]} \cup {[ok |-> TRUE, length |-> l] : l \in ProbedLengths}

\* int(value) / 1000.0 in _seek_end: slider milliseconds to seconds
MsPerSec == 1000
ms_to_sec(value) == value \div MsPerSec

\* the positions the progress slider can be released at: 0 .. int(length * 1000)
SliderValues(length) == {k * MsPerSec : k \in 0..length}

\* what play(start=sec) can do in _seek_end: restart the stream ("ok"), or
\* raise and leave the mixer as it was ("raised") or halted ("halted")
SeekResults == {"ok", "raised", "halted"}

\* the file lists a dialog or a folder walk can hand over: nothing or one file
FileLists == {<<>>} \cup {<<f>> : f \in Files}

(***************************************************************************)
(* Handlers of VinylPlayer.                                                *)
(***************************************************************************)
\* add_files: the dialog returned `files'
AddFiles(files) ==
    /\ running
    /\ files # <<>>
    /\ Len(playlist) + Len(accepted(files)) <= MaxLen
    /\ playlist' = playlist \o accepted(files)
    /\ original_order' = playlist'
    /\ current_index' = IF current_index = -1 /\ playlist' # <<>> THEN 0 ELSE current_index
    /\ handled("add_files", FALSE)
    /\ UNCHANGED <<repeat_mode, shuffle_mode, playback_state, mixer, mixer_track,
                   now, offset, played>>

\* add_folder: the folder holds `files' in rglob order
AddFolder(files) ==
    /\ running
    /\ Len(playlist) + Len(accepted(files)) <= MaxLen
    /\ playlist' = playlist \o accepted(files)
    /\ original_order' = playlist'
    /\ current_index' = IF Len(accepted(files)) = 0 THEN current_index
                        ELSE IF current_index = -1 /\ playlist' # <<>> THEN 0
                        ELSE current_index
    /\ handled("add_folder", FALSE)
    /\ UNCHANGED <<repeat_mode, shuffle_mode, playback_state, mixer, mixer_track,
                   now, offset, played>>

\* remove_selected without the stop() on an emptied playlist
RemoveSelected_never_stops(selection) ==
    /\ running
    /\ selection # {}
    /\ \E r \in {remove_items(playlist, current_index, selection)} :
       /\ playlist' = r.playlist
       /\ original_order' = r.original_order
       /\ current_index' = r.current_index
    /\ handled("remove_selected", FALSE)
    /\ UNCHANGED <<repeat_mode, shuffle_mode, now, playback_state, mixer, mixer_track,
                   offset, played>>

\* remove_selected: `selection' is the set of playlist positions selected
RemoveSelected(selection) ==
    /\ running
    /\ selection # {}
    /\ \E r \in {remove_items(playlist, current_index, selection)} :
       /\ playlist' = r.playlist
       /\ original_order' = r.original_order
       /\ current_index' = r.current_index
       /\ IF r.playlist = <<>> THEN stop
          ELSE UNCHANGED <<playback_state, mixer, mixer_track, offset, played>>
    /\ handled("remove_selected", FALSE)
    /\ UNCHANGED <<repeat_mode, shuffle_mode, now>>

\* clear_playlist
ClearPlaylist ==
    /\ running
    /\ playlist' = <<>>
    /\ original_order' = <<>>
    /\ current_index' = -1
    /\ stop
    /\ handled("clear_playlist", FALSE)
    /\ UNCHANGED <<repeat_mode, shuffle_mode, now>>

\* _double_click_play on playlist position i
DoubleClickPlay(i, res) ==
    /\ running
    /\ current_index' = i
    /\ load_and_play(i, playlist, res)
    /\ handled("double_click_play", load_outcome(i, playlist, res.ok) = "failed")
    /\ UNCHANGED <<playlist, original_order, repeat_mode, shuffle_mode, now>>

\* play_pause without the test for an empty playlist
PlayPause_no_empty_guard(sel, res) ==
    /\ running
    /\ IF playback_state.is_playing /\ ~playback_state.is_paused
       THEN /\ mixer' = mixer_pause(mixer)
            /\ playback_state' = pause_state(playback_state, now)
            /\ handled("pause", FALSE)
            /\ UNCHANGED <<pmvars, mixer_track, now, offset, played>>
       ELSE IF playback_state.is_playing /\ playback_state.is_paused
       THEN /\ mixer' = mixer_unpause(mixer)
            /\ playback_state' = resume_state(playback_state, now)
            /\ handled("resume", FALSE)
            /\ UNCHANGED <<pmvars, mixer_track, now, offset, played>>
       ELSE /\ current_index' = IF sel >= 0 THEN sel
                                ELSE IF current_index = -1 THEN 0 ELSE current_index
            /\ load_and_play(current_index', playlist, res)
            /\ handled("play", load_outcome(current_index', playlist, res.ok) = "failed")
            /\ UNCHANGED <<playlist, original_order, repeat_mode, shuffle_mode, now>>

\* play_pause; sel is the selected playlist position, -1 when nothing is selected
PlayPause(sel, res) ==
    /\ running
    /\ IF playlist = <<>>
       THEN /\ handled("play_ignored", FALSE)
            /\ UNCHANGED <<pmvars, playback_state, mixer, mixer_track, now, offset, played>>
       ELSE IF playback_state.is_playing /\ ~playback_state.is_paused
       THEN /\ mixer' = mixer_pause(mixer)
            /\ playback_state' = pause_state(playback_state, now)
            /\ handled("pause", FALSE)
            /\ UNCHANGED <<pmvars, mixer_track, now, offset, played>>
       ELSE IF playback_state.is_playing /\ playback_state.is_paused
       THEN /\ mixer' = mixer_unpause(mixer)
            /\ playback_state' = resume_state(playback_state, now)
            /\ handled("resume", FALSE)
            /\ UNCHANGED <<pmvars, mixer_track, now, offset, played>>
       ELSE /\ current_index' = IF sel >= 0 THEN sel
                                ELSE IF current_index = -1 THEN 0 ELSE current_index
            /\ load_and_play(current_index', playlist, res)
            /\ handled("play", load_outcome(current_index', playlist, res.ok) = "failed")
            /\ UNCHANGED <<playlist, original_order, repeat_mode, shuffle_mode, now>>

\* stop
Stop ==
    /\ running
    /\ stop
    /\ handled("stop", FALSE)
    /\ UNCHANGED <<pmvars, now>>

\* next_track that stops at the end of the playlist instead of wrapping
next_track_stops_at_end(res) ==
    IF playlist = <<>>
    THEN UNCHANGED <<current_index, playback_state, mixer, mixer_track, offset, played>>
    ELSE IF current_index = Len(playlist) - 1
    THEN stop /\ UNCHANGED current_index
    ELSE /\ current_index' = get_next_index(playlist, current_index, repeat_mode)
         /\ load_and_play(current_index', playlist, res)

\* next_track, also the second branch of _handle_track_end
next_track(res) ==
    IF playlist = <<>>
    THEN UNCHANGED <<current_index, playback_state, mixer, mixer_track, offset, played>>
    ELSE /\ current_index' = get_next_index(playlist, current_index, repeat_mode)
         /\ load_and_play(current_index', playlist, res)

next_track_outcome(res) ==
    IF playlist = <<>> THEN "none"
    ELSE load_outcome(get_next_index(playlist, current_index, repeat_mode), playlist, res.ok)

NextTrack(res) ==
    /\ running
    /\ next_track(res)
    /\ handled(IF playlist = <<>> THEN "next_ignored" ELSE "next_track",
               next_track_outcome(res) = "failed")
    /\ UNCHANGED <<playlist, original_order, repeat_mode, shuffle_mode, now>>

\* prev_track
PrevTrack(res) ==
    /\ running
    /\ IF playlist = <<>>
       THEN UNCHANGED <<current_index, playback_state, mixer, mixer_track, offset, played>>
       ELSE /\ current_index' = get_prev_index(playlist, current_index, repeat_mode)
            /\ load_and_play(current_index', playlist, res)
    /\ handled(IF playlist = <<>> THEN "prev_ignored" ELSE "prev_track",
               /\ playlist # <<>>
               /\ load_outcome(get_prev_index(playlist, current_index, repeat_mode),
                               playlist, res.ok) = "failed")
    /\ UNCHANGED <<playlist, original_order, repeat_mode, shuffle_mode, now>>

\* toggle_repeat
ToggleRepeat ==
    /\ running
    /\ repeat_mode' = (repeat_mode + 1) % 2
    /\ handled("toggle_repeat", FALSE)
    /\ UNCHANGED <<playlist, original_order, current_index, shuffle_mode,
                   playback_state, mixer, mixer_track, now, offset, played>>

\* PlaylistManager.toggle_shuffle from shuffle_mode sm; sh is what
\* random.shuffle leaves in temp_playlist
toggle_shuffle(pl, oo, ci, sm, sh) ==
    IF ~sm THEN apply_shuffle(pl, ci, sh) ELSE restore_original_order(pl, oo, ci)

\* toggle_shuffle
ToggleShuffle(sh) ==
    /\ running
    /\ shuffle_mode' = ~shuffle_mode
    /\ \E r \in {toggle_shuffle(playlist, original_order, current_index, shuffle_mode, sh)} :
       /\ playlist' = r.playlist
       /\ current_index' = r.current_index
    /\ handled("toggle_shuffle", FALSE)
    /\ UNCHANGED <<original_order, repeat_mode, playback_state, mixer, mixer_track,
                   now, offset, played>>

\* the mixer after the try block of _seek_end
seek_mixer(m, was_paused, result) ==
    IF result = "raised" THEN m
    ELSE IF result = "halted" THEN "idle"
    ELSE IF was_paused THEN mixer_pause("playing")
    ELSE "playing"

\* the wall clock when _seek_end has made its last read of it: `lag' after
\* the first read when last_pause is stamped, the first read otherwise
seek_clock(ps, t, lag) == IF ps.is_paused THEN t + lag ELSE t

\* _seek_end that tests is_playing only, not track_length
SeekEnd_no_length_guard(value, result, lag) ==
    /\ running
    /\ IF ~playback_state.is_playing
       THEN /\ handled("seek_ignored", FALSE)
            /\ UNCHANGED <<pmvars, playback_state, mixer, mixer_track, now, offset, played>>
       ELSE /\ mixer' = seek_mixer(mixer, playback_state.is_paused, result)
            /\ now' = seek_clock(playback_state, now, lag)
            /\ playback_state' = seek_state(playback_state, ms_to_sec(value), now, now')
            /\ offset' = ms_to_sec(value)
            /\ played' = 0
            /\ handled("seek", FALSE)
            /\ UNCHANGED <<pmvars, mixer_track>>

\* _seek_end with the slider released at `value'; `lag' is the time between
\* its two reads of the clock
SeekEnd(value, result, lag) ==
    /\ running
    /\ IF ~playback_state.is_playing \/ playback_state.track_length <= 0
       THEN /\ handled("seek_ignored", FALSE)
            /\ UNCHANGED <<pmvars, playback_state, mixer, mixer_track, now, offset, played>>
       ELSE /\ mixer' = seek_mixer(mixer, playback_state.is_paused, result)
            /\ now' = seek_clock(playback_state, now, lag)
            /\ playback_state' = seek_state(playback_state, ms_to_sec(value), now, now')
            /\ offset' = ms_to_sec(value)
            /\ played' = 0
            /\ handled("seek", FALSE)
            /\ UNCHANGED <<pmvars, mixer_track>>

\* _update_ui that handles the end of a track only once elapsed has reached
\* track_length (the else branch of the inner test missing)
UpdateUi_only_at_length(res) ==
    /\ running
    /\ IF /\ playback_state.is_playing /\ ~get_busy(mixer) /\ ~playback_state.is_paused
          /\ playback_state.track_length # 0
          /\ Elapsed >= playback_state.track_length
       THEN /\ IF repeat_mode = 1
               THEN /\ load_and_play(current_index, playlist, res)
                    /\ UNCHANGED current_index
               ELSE next_track(res)
            /\ handled("track_end",
                       (IF repeat_mode = 1
                        THEN load_outcome(current_index, playlist, res.ok)
                        ELSE next_track_outcome(res)) = "failed")
       ELSE /\ lastCall' = logged("tick")
            /\ UNCHANGED running
            /\ UNCHANGED <<current_index, playback_state, mixer, mixer_track, offset, played,
                           load_error>>
    /\ UNCHANGED <<playlist, original_order, repeat_mode, shuffle_mode, now>>

\* _update_ui without the test `not is_paused'
UpdateUi_ignores_pause(res) ==
    /\ running
    /\ IF playback_state.is_playing /\ ~get_busy(mixer)
       THEN /\ IF repeat_mode = 1
               THEN /\ load_and_play(current_index, playlist, res)
                    /\ UNCHANGED current_index
               ELSE next_track(res)
            /\ handled("track_end",
                       (IF repeat_mode = 1
                        THEN load_outcome(current_index, playlist, res.ok)
                        ELSE next_track_outcome(res)) = "failed")
       ELSE /\ lastCall' = logged("tick")
            /\ UNCHANGED running
            /\ UNCHANGED <<current_index, playback_state, mixer, mixer_track, offset, played,
                           load_error>>
    /\ UNCHANGED <<playlist, original_order, repeat_mode, shuffle_mode, now>>

\* _update_ui: one tick of the 60 Hz timer
UpdateUi(res) ==
    /\ running
    /\ IF playback_state.is_playing /\ ~get_busy(mixer) /\ ~playback_state.is_paused
       THEN \* _handle_track_end
            /\ IF repeat_mode = 1
               THEN /\ load_and_play(current_index, playlist, res)
                    /\ UNCHANGED current_index
               ELSE next_track(res)
            /\ handled("track_end",
                       (IF repeat_mode = 1
                        THEN load_outcome(current_index, playlist, res.ok)
                        ELSE next_track_outcome(res)) = "failed")
       ELSE /\ lastCall' = logged("tick")
            /\ UNCHANGED running
            /\ UNCHANGED <<current_index, playback_state, mixer, mixer_track, offset, played,
                           load_error>>
    /\ UNCHANGED <<playlist, original_order, repeat_mode, shuffle_mode, now>>

(***************************************************************************)
(* Environment: the wall clock and the audio backend.                      *)
(***************************************************************************)
\* one second passes, up to `limit' seconds after start-up
advance_clock(limit) ==
    /\ running
    /\ now < T0 + limit
    /\ now' = now + 1
    /\ played' = IF Phase(playback_state) = "Playing" THEN played + 1 ELSE played
    /\ UNCHANGED <<pmvars, playback_state, mixer, mixer_track, offset, load_error, running,
                   lastCall>>

AdvanceClock == advance_clock(Horizon)

\* the times _seek_end may take between its clock reads, the wall clock
\* staying within `limit' seconds after start-up; it reads the clock a second
\* time only when the clock is paused
SeekLags(limit) ==
    IF playback_state.is_paused
    THEN {lag \in 0..MaxSeekLag : now + lag <= T0 + limit}
    ELSE {0}

\* the backend reaches the end of the stream it is playing
TrackFinishes ==
    /\ running
    /\ mixer = "playing"
    /\ mixer' = "idle"
    /\ UNCHANGED <<pmvars, playback_state, mixer_track, now, offset, played, load_error,
                   running, lastCall>>

\* main leaves root.mainloop() (the window is closed) and its finally clause
\* calls VinylPlayer.cleanup: pygame.mixer.quit() halts the backend; no
\* handler runs afterwards
Cleanup ==
    /\ running
    /\ running' = FALSE
    /\ mixer' = "idle"
    /\ lastCall' = logged("cleanup")
    /\ UNCHANGED <<pmvars, playback_state, mixer_track, now, offset, played, load_error>>

Positions == 0..(Len(playlist) - 1)

Next ==
    \/ \E files \in FileLists : AddFiles(files)
    \/ \E files \in FileLists : AddFolder(files)
    \/ \E selection \in SUBSET Positions : RemoveSelected(selection)
    \/ ClearPlaylist
    \/ \E i \in Positions, res \in LoadResults : DoubleClickPlay(i, res)
    \/ \E sel \in {-1} \cup Positions, res \in LoadResults : PlayPause(sel, res)
    \/ Stop
    \/ \E res \in LoadResults : NextTrack(res)
    \/ \E res \in LoadResults : PrevTrack(res)
    \/ ToggleRepeat
    \/ \E sh \in Shuffles(apply_shuffle_temp(playlist, current_index)) : ToggleShuffle(sh)
    \/ \E value \in SliderValues(playback_state.track_length), result \in SeekResults,
          lag \in SeekLags(Horizon) : SeekEnd(value, result, lag)
    \/ \E res \in LoadResults : UpdateUi(res)
    \/ AdvanceClock
    \/ TrackFinishes
    \/ Cleanup

Spec == Init /\ [][Next]_vars

(***************************************************************************)
(* The clock alone: two tracks are in the playlist and the playlist is not *)
(* edited; the wall clock runs for LongHorizon seconds.                    *)
(***************************************************************************)
InitClock ==
    /\ playlist = <<"a.mp3", "b.OGG">>
    /\ original_order = <<"a.mp3", "b.OGG">>
    /\ current_index = 0
    /\ repeat_mode = 0
    /\ shuffle_mode = FALSE
    /\ playback_state = reset
    /\ mixer = "idle"
    /\ mixer_track = ""
    /\ now = T0
    /\ offset = 0
    /\ played = 0
    /\ load_error = FALSE
    /\ running = TRUE
    /\ lastCall = Call("none")

ClockRuns == advance_clock(LongHorizon)

NextClock ==
    \/ \E res \in LoadResults : PlayPause(-1, res)
    \/ Stop
    \/ \E res \in LoadResults : NextTrack(res)
    \/ ToggleRepeat
    \/ \E value \in SliderValues(playback_state.track_length), result \in SeekResults,
          lag \in SeekLags(LongHorizon) : SeekEnd(value, result, lag)
    \/ \E res \in LoadResults : UpdateUi(res)
    \/ ClockRuns
    \/ TrackFinishes
    \/ Cleanup

SpecClock == InitClock /\ [][NextClock]_vars

(***************************************************************************)
(* The playback controls with a log of the handlers: two tracks are in the *)
(* playlist, the user may remove tracks, and the wall clock runs for       *)
(* LogHorizon seconds.                                                     *)
(***************************************************************************)
InitLog ==
    /\ playlist = <<"a.mp3", "b.OGG">>
    /\ original_order = <<"a.mp3", "b.OGG">>
    /\ current_index = 0
    /\ repeat_mode = 0
    /\ shuffle_mode = FALSE
    /\ playback_state = reset
    /\ mixer = "idle"
    /\ mixer_track = ""
    /\ now = T0
    /\ offset = 0
    /\ played = 0
    /\ load_error = FALSE
    /\ running = TRUE
    /\ lastCall = Call("start")

ClockRunsLog == advance_clock(LogHorizon)

NextLog ==
    \/ \E selection \in SUBSET Positions : RemoveSelected(selection)
    \/ \E res \in LoadResults : PlayPause(-1, res)
    \/ Stop
    \/ \E res \in LoadResults : NextTrack(res)
    \/ \E res \in LoadResults : PrevTrack(res)
    \/ ToggleRepeat
    \/ \E value \in SliderValues(playback_state.track_length), result \in SeekResults,
          lag \in SeekLags(LogHorizon) : SeekEnd(value, result, lag)
    \/ \E res \in LoadResults : UpdateUi(res)
    \/ ClockRunsLog
    \/ TrackFinishes
    \/ Cleanup

SpecLog == InitLog /\ [][NextLog]_vars

(***************************************************************************)
(* The logged playback controls under the scheduling of the program: the   *)
(* 60 Hz timer keeps firing _update_ui, and the backend reaches the end of *)
(* every stream it plays.                                                  *)
(***************************************************************************)
Tick == \E res \in LoadResults : UpdateUi(res)

SpecFair == InitLog /\ [][NextLog]_vars /\ WF_vars(Tick) /\ WF_vars(TrackFinishes)

(***************************************************************************)

(* The PlaylistManager alone, called as a library: its methods take any    *)
(* file list and any set of positions, and the caller moves current_index  *)
(* the way VinylPlayer does.  The clock and the backend do not move.       *)
(***************************************************************************)
frozen == <<playback_state, mixer, mixer_track, now, offset, played, load_error,
            running>>

FileListsPM == {<<>>} \cup {<<f>> : f \in FilesPM}

\* PlaylistManager.add_files
PMAddFiles(files) ==
    /\ Len(playlist) + Len(accepted(files)) <= MaxLenPM
    /\ playlist' = playlist \o accepted(files)
    /\ original_order' = playlist'
    /\ lastCall' = Call("add_files")
    /\ UNCHANGED <<current_index, repeat_mode, shuffle_mode, frozen>>

\* PlaylistManager.add_folder
PMAddFolder(files) ==
    /\ Len(playlist) + Len(accepted(files)) <= MaxLenPM
    /\ playlist' = playlist \o accepted(files)
    /\ original_order' = playlist'
    /\ lastCall' = Call("add_folder")
    /\ UNCHANGED <<current_index, repeat_mode, shuffle_mode, frozen>>

\* PlaylistManager.remove_items
PMRemoveItems(indices) ==
    /\ \E r \in {remove_items(playlist, current_index, indices)} :
       /\ playlist' = r.playlist
       /\ original_order' = r.original_order
       /\ current_index' = r.current_index
    /\ lastCall' = [Call("remove_items") EXCEPT !.sel = indices]
    /\ UNCHANGED <<repeat_mode, shuffle_mode, frozen>>

\* PlaylistManager.clear
PMClear ==
    /\ playlist' = <<>>
    /\ original_order' = <<>>
    /\ current_index' = -1
    /\ lastCall' = Call("clear")
    /\ UNCHANGED <<repeat_mode, shuffle_mode, frozen>>

\* PlaylistManager.toggle_shuffle
PMToggleShuffle(sh) ==
    /\ shuffle_mode' = ~shuffle_mode
    /\ \E r \in {toggle_shuffle(playlist, original_order, current_index, shuffle_mode, sh)} :
       /\ playlist' = r.playlist
       /\ current_index' = r.current_index
    /\ lastCall' = Call("toggle_shuffle")
    /\ UNCHANGED <<original_order, repeat_mode, frozen>>

\* the caller selects position i (add_files, _double_click_play, play_pause)
PMSelect(i) ==
    /\ current_index' = i
    /\ lastCall' = Call("select")
    /\ UNCHANGED <<playlist, original_order, repeat_mode, shuffle_mode, frozen>>

\* the caller steps the cursor: current_index = get_next_index()
PMNext ==
    /\ playlist # <<>>
    /\ current_index' = get_next_index(playlist, current_index, repeat_mode)
    /\ lastCall' = Call("next")
    /\ UNCHANGED <<playlist, original_order, repeat_mode, shuffle_mode, frozen>>

\* the caller steps the cursor back: current_index = get_prev_index()
PMPrev ==
    /\ playlist # <<>>
    /\ current_index' = get_prev_index(playlist, current_index, repeat_mode)
    /\ lastCall' = Call("prev")
    /\ UNCHANGED <<playlist, original_order, repeat_mode, shuffle_mode, frozen>>

\* the caller flips repeat_mode
PMToggleRepeat ==
    /\ repeat_mode' = (repeat_mode + 1) % 2
    /\ lastCall' = Call("toggle_repeat")
    /\ UNCHANGED <<playlist, original_order, current_index, shuffle_mode, frozen>>

NextPM ==
    \/ \E files \in FileListsPM : PMAddFiles(files)
    \/ \E files \in FileListsPM : PMAddFolder(files)
    \/ \E indices \in SUBSET (-1..MaxLenPM) : PMRemoveItems(indices)
    \/ PMClear
    \/ \E sh \in Shuffles(apply_shuffle_temp(playlist, current_index)) : PMToggleShuffle(sh)
    \/ \E i \in Positions : PMSelect(i)
    \/ PMNext
    \/ PMPrev
    \/ PMToggleRepeat

SpecPM == Init /\ [][NextPM]_vars

(***************************************************************************)
(* Properties.                                                             *)
(***************************************************************************)
NoDup(s) == \A i, j \in 1..Len(s) : s[i] = s[j] => i = j

\* the multiset of the entries of a list
BagOf(s) == [x \in Range(s) |-> Cardinality({i \in 1..Len(s) : s[i] = x})]

\* 1-based position of x in a list without duplicates
pos(s, x) == CHOOSE k \in 1..Len(s) : s[k] = x

\* the entries two duplicate-free lists share come in the same order in both
SameRelativeOrder(s, t) ==
    \A x, y \in Range(s) \cap Range(t) : (pos(s, x) < pos(s, y)) <=> (pos(t, x) < pos(t, y))

\* list s without the (0-based) positions in V, order kept
RECURSIVE without(_, _, _)
without(s, V, k) ==
    IF k > Len(s) THEN <<>>
    ELSE IF (k - 1) \in V THEN without(s, V, k + 1)
    ELSE <<s[k]>> \o without(s, V, k + 1)

\* C1: in every state the player reaches, current_index is -1 or a position
\* of the playlist: 0 <= current_index < len(playlist).
C1_CursorInRange ==
    current_index = -1 \/ (0 <= current_index /\ current_index < Len(playlist))

\* the cursor is on the last track of a full playlist that is shuffled and
\* playing
C1_Witness ==
    /\ Len(playlist) = MaxLen
    /\ current_index = MaxLen - 1
    /\ shuffle_mode
    /\ Phase(playback_state) = "Playing"

\* C2: whenever load_and_play fails to load the track, the clock is Stopped
\* with the Stopped defaults, whatever the phase was before the call.
C2_LoadFailureStops == load_error => playback_state = reset

\* C3: after a load failure no tick moves the cursor off the failed track.
C3_NoAutoAdvanceAfterFailure ==
    [][(load_error /\ \E res \in LoadResults : UpdateUi(res)) =>
          current_index' = current_index]_vars

\* C4: while Playing, with the anchor untouched (no seek, load or stop),
\* elapsed() never decreases as the wall clock advances; while Paused it does
\* not change, however long the pause lasts.
C4_ElapsedMonotone ==
    [][/\ (/\ Phase(playback_state) = "Playing"
           /\ Phase(playback_state') = "Playing"
           /\ playback_state'.start_time = playback_state.start_time
           /\ playback_state'.pause_accum = playback_state.pause_accum)
          => elapsed_time(playback_state', now') >= elapsed_time(playback_state, now)
       /\ (/\ Phase(playback_state) = "Paused"
           /\ playback_state' = playback_state)
          => elapsed_time(playback_state', now') = elapsed_time(playback_state, now)]_vars

\* a track played for a second and has now been paused for two
C4_Witness ==
    /\ Phase(playback_state) = "Paused"
    /\ Elapsed = 1
    /\ now = playback_state.last_pause + 2

\* C5: paused time is never counted.  While a track is loaded, elapsed() is
\* the position set by the last anchor reset (0 for a load, S for a seek)
\* plus the wall-clock time spent Playing since that reset.
C5_PausedTimeNotCounted == playback_state.is_playing => Elapsed = offset + played

\* two seconds played, two seconds paused, then resumed: elapsed() is 2, not 4
C5_Witness ==
    /\ Phase(playback_state) = "Playing"
    /\ played = 2
    /\ playback_state.pause_accum = 2
    /\ Elapsed = 2

\* C6: a seek to S that passes the guards of _seek_end keeps the phase and
\* makes elapsed() S at that instant; done while Paused it leaves the backend
\* paused again (never playing).  From then on elapsed() is S plus the time
\* played since: S for as long as the pause lasts, growing from S after the
\* resume.
C6_SeekStep ==
    \A value \in SliderValues(playback_state.track_length), result \in SeekResults,
       lag \in 0..MaxSeekLag :
       (/\ playback_state.is_playing
        /\ playback_state.track_length > 0
        /\ SeekEnd(value, result, lag)) =>
          /\ Phase(playback_state') = Phase(playback_state)
          /\ elapsed_time(playback_state', now') = ms_to_sec(value)
          /\ playback_state.is_paused =>
                /\ mixer' # "playing"
                /\ result = "ok" => mixer' = "paused"

C6_AfterSeek ==
    offset > 0 =>
       /\ playback_state.is_playing
       /\ Elapsed = offset + played
       /\ Phase(playback_state) = "Paused" /\ played = 0 => Elapsed = offset

C6_SeekCorrect == []C6_AfterSeek /\ [][C6_SeekStep]_vars

\* a paused track was moved to second 2 and has stayed there, with the
\* backend paused, while the wall clock went on
C6_Witness ==
    /\ Phase(playback_state) = "Paused"
    /\ mixer = "paused"
    /\ offset = 2
    /\ played = 0
    /\ now > playback_state.last_pause
    /\ Elapsed = 2

\* C7: shuffle round trip.  Whenever toggle_shuffle enters shuffle on a
\* playlist without duplicates, a second toggle_shuffle right after it gives
\* back the playlist and the current_index held before the first.
C7_ShuffleRoundTrip ==
    [][(lastCall'.op = "toggle_shuffle" /\ ~shuffle_mode /\ NoDup(playlist)) =>
          \A sh \in Shuffles(apply_shuffle_temp(playlist', current_index')) :
             LET back == toggle_shuffle(playlist', original_order', current_index',
                                        shuffle_mode', sh)
             IN back.playlist = playlist /\ back.current_index = current_index]_vars

\* shuffle was entered with the cursor on the third of three distinct tracks:
\* that track now leads the list and the rest was reordered
C7_Witness ==
    /\ lastCall.op = "toggle_shuffle"
    /\ shuffle_mode
    /\ Len(playlist) = 3 /\ NoDup(playlist)
    /\ current_index = 0
    /\ original_order[3] = playlist[1]
    /\ original_order[1] = playlist[3]

\* C8: original_order keeps the pre-shuffle order: a step taken while
\* shuffle is on (add_files, add_folder, remove_items) leaves the tracks that
\* survive it in the relative order original_order had them in.
C8_OriginalOrderKept ==
    [][(shuffle_mode /\ shuffle_mode' /\ NoDup(original_order) /\ NoDup(original_order')) =>
          SameRelativeOrder(original_order, original_order')]_vars

\* C9: playlist and original_order hold the same tracks with the same
\* multiplicities, shuffle on or off.
C9_SameMultiset == BagOf(original_order) = BagOf(playlist)

\* the playlist is shuffled into another order than original_order holds
C9_Witness ==
    /\ shuffle_mode
    /\ Len(playlist) = MaxLen
    /\ playlist # original_order

\* C10: removal reindexing.  remove_items(S) deletes exactly the positions of
\* S that exist; a cursor in S becomes -1; any other cursor drops by the
\* number of deleted positions below it and stays on the same track.
C10_RemovalReindexing ==
    [][lastCall'.op = "remove_items" =>
          LET S == lastCall'.sel
              V == {k \in S : 0 <= k /\ k < Len(playlist)}
          IN /\ playlist' = without(playlist, V, 1)
             /\ current_index \in S => current_index' = -1
             /\ current_index \notin S =>
                   /\ current_index' =
                         current_index - Cardinality({k \in V : k < current_index})
                   /\ current_index >= 0 =>
                         playlist'[current_index' + 1] = playlist[current_index + 1]]_vars

\* positions 0 and 3 were given for a three-track list with the cursor on
\* its last track: position 3 does not exist, the cursor moved from 2 to 1
C10_Witness ==
    /\ lastCall.op = "remove_items"
    /\ lastCall.sel = {0, 3}
    /\ Len(playlist) = 2
    /\ current_index = 1

\* current_index = get_next_index(), n times over
RECURSIVE next_times(_, _, _, _)
next_times(pl, ci, rm, n) ==
    IF n = 0 THEN ci ELSE next_times(pl, get_next_index(pl, ci, rm), rm, n - 1)

\* current_index = get_prev_index(), n times over
RECURSIVE prev_times(_, _, _, _)
prev_times(pl, ci, rm, n) ==
    IF n = 0 THEN ci ELSE prev_times(pl, get_prev_index(pl, ci, rm), rm, n - 1)

\* C11 as stated: on a non-empty playlist with repeat off, len(playlist)
\* steps of current_index := get_next_index() bring current_index back to
\* where it was, and so do len(playlist) steps of get_prev_index(); one step
\* wraps from the last position to 0 and from 0 to the last position.
C11_FullCycle ==
    (playlist # <<>> /\ repeat_mode = 0) =>
       /\ next_times(playlist, current_index, repeat_mode, Len(playlist)) = current_index
       /\ prev_times(playlist, current_index, repeat_mode, Len(playlist)) = current_index
       /\ current_index = Len(playlist) - 1 =>
             get_next_index(playlist, current_index, repeat_mode) = 0
       /\ current_index = 0 =>
             get_prev_index(playlist, current_index, repeat_mode) = Len(playlist) - 1

\* C11 amended: the same, for a cursor that is on a track (current_index >= 0).
C11_FullCycleFromTrack ==
    (playlist # <<>> /\ repeat_mode = 0 /\ current_index >= 0) =>
       /\ next_times(playlist, current_index, repeat_mode, Len(playlist)) = current_index
       /\ prev_times(playlist, current_index, repeat_mode, Len(playlist)) = current_index
       /\ current_index = Len(playlist) - 1 =>
             get_next_index(playlist, current_index, repeat_mode) = 0
       /\ current_index = 0 =>
             get_prev_index(playlist, current_index, repeat_mode) = Len(playlist) - 1

\* a step back with repeat off has put the cursor on the last of three
\* tracks: it was on the first one and wrapped
C11_Witness ==
    /\ lastCall.op = "prev"
    /\ repeat_mode = 0
    /\ Len(playlist) = 3
    /\ current_index = 2

\* the clock and the backend right after a load of playlist position i
\* that succeeded at wall-clock time t
freshly_loaded(i, ps, m, track, t) ==
    /\ Phase(ps) = "Playing"
    /\ ps.start_time = t
    /\ ps.pause_accum = 0
    /\ ps.last_pause = 0
    /\ m = "playing"
    /\ track = playlist[i + 1]

\* C12: with repeat one and a non-empty playlist get_next_index and
\* get_prev_index both return current_index (>= 0), so next_track and
\* prev_track leave the cursor where it is and start the same track again;
\* on an empty playlist both return -1 in either repeat mode.
C12_SameIndex ==
    /\ (repeat_mode = 1 /\ playlist # <<>> /\ current_index >= 0) =>
          /\ get_next_index(playlist, current_index, repeat_mode) = current_index
          /\ get_prev_index(playlist, current_index, repeat_mode) = current_index
    /\ playlist = <<>> =>
          \A rm \in {0, 1} : /\ get_next_index(playlist, current_index, rm) = -1
                             /\ get_prev_index(playlist, current_index, rm) = -1

C12_SameTrackRestarted ==
    \A res \in LoadResults :
       (/\ repeat_mode = 1 /\ playlist # <<>> /\ current_index >= 0
        /\ (NextTrack(res) \/ PrevTrack(res))) =>
          /\ current_index' = current_index
          /\ res.ok => freshly_loaded(current_index, playback_state', mixer',
                                      mixer_track', now')

C12_RepeatOne == []C12_SameIndex /\ [][C12_SameTrackRestarted]_vars

\* with repeat one, prev_track has started the second track again, later
\* than start-up
C12_Witness ==
    /\ lastCall.op = "prev_track"
    /\ repeat_mode = 1
    /\ current_index = 1
    /\ now > T0
    /\ freshly_loaded(1, playback_state, mixer, mixer_track, now)

\* a tick finds the clock Playing and the backend not busy
CompletionSeen == Phase(playback_state) = "Playing" /\ ~get_busy(mixer)

\* C13: a tick that finds the clock Playing, the backend not busy and repeat
\* off moves the cursor to (current_index + 1) mod len(playlist) and loads
\* that track; when the load succeeds the clock is Playing with
\* start_time = now, pause_accum = 0, last_pause = 0.  This does not depend
\* on how elapsed compares to track_length.
C13_TrackEndAdvances ==
    [][\A res \in LoadResults :
          (CompletionSeen /\ repeat_mode = 0 /\ playlist # <<>> /\ UpdateUi(res)) =>
             /\ current_index' = (current_index + 1) % Len(playlist)
             /\ res.ok => freshly_loaded(current_index', playback_state', mixer',
                                         mixer_track', now')]_vars

\* the tick has wrapped from the last of two tracks to the first and started
\* it, later than start-up
C13_Witness ==
    /\ lastCall.op = "track_end"
    /\ repeat_mode = 0
    /\ Len(playlist) = 2
    /\ current_index = 0
    /\ now > T0
    /\ freshly_loaded(0, playback_state, mixer, mixer_track, now)

\* C14: every completion a tick detects resolves the clock: after a tick
\* that found the clock Playing and the backend not busy, the clock is
\* Stopped or Playing again through a reload (anchor at now, backend busy);
\* it is never left Playing on the old anchor with a finished backend.
C14_CompletionResolved ==
    [][\A res \in LoadResults :
          (CompletionSeen /\ UpdateUi(res)) =>
             \/ Phase(playback_state') = "Stopped"
             \/ /\ Phase(playback_state') = "Playing"
                /\ playback_state'.start_time = now'
                /\ playback_state'.pause_accum = 0
                /\ get_busy(mixer')]_vars

\* C15: stop, from Stopped, Playing or Paused, stops the backend and leaves
\* the clock at the Stopped defaults (track_length, start_time, pause_accum,
\* last_pause all 0), so elapsed is 0; playlist, original_order,
\* current_index, shuffle_mode and repeat_mode are unchanged.
C15_StopResets ==
    [][Stop =>
          /\ playback_state' = reset
          /\ Phase(playback_state') = "Stopped"
          /\ elapsed_time(playback_state', now') = 0
          /\ mixer' = "idle"
          /\ UNCHANGED pmvars]_vars

\* stop has run on a track that had been loaded, later than start-up and
\* with repeat one set
C15_Witness ==
    /\ lastCall.op = "stop"
    /\ now > T0
    /\ mixer_track # ""
    /\ repeat_mode = 1
    /\ current_index = 1
    /\ playback_state = reset
    /\ mixer = "idle"

\* C16: a seek while the clock is Stopped or while track_length is 0 is a
\* no-op: the backend is not called, the phase, start_time, pause_accum and
\* last_pause stay as they are, and no error is reported.
C16_InvalidSeekIgnored ==
    [][\A value \in SliderValues(playback_state.track_length), result \in SeekResults,
          lag \in 0..MaxSeekLag :
          (/\ Phase(playback_state) = "Stopped" \/ playback_state.track_length = 0
           /\ SeekEnd(value, result, lag)) =>
             /\ UNCHANGED <<playback_state, mixer, mixer_track>>
             /\ ~load_error']_vars

\* a seek was ignored on a track of unknown length that has played for a
\* second
C16_Witness ==
    /\ lastCall.op = "seek_ignored"
    /\ Phase(playback_state) = "Playing"
    /\ playback_state.track_length = 0
    /\ Elapsed > 0
    /\ mixer = "playing"

\* C17: with an empty playlist the clock is Stopped and current_index is
\* -1, and next_track, prev_track and play_pause are no-ops: the clock,
\* current_index, playlist, shuffle_mode and repeat_mode stay as they are
\* and the backend is not asked to load or play.
C17_EmptyState ==
    playlist = <<>> => playback_state = reset /\ current_index = -1

C17_EmptyStep ==
    \A res \in LoadResults :
       (/\ playlist = <<>>
        /\ (NextTrack(res) \/ PrevTrack(res) \/ PlayPause(-1, res))) =>
          UNCHANGED <<pmvars, playback_state, mixer, mixer_track, load_error>>

C17_EmptyPlaylistNoOps == []C17_EmptyState /\ [][C17_EmptyStep]_vars

\* play_pause was ignored on a playlist the user had emptied
C17_Witness ==
    /\ lastCall.op = "play_ignored"
    /\ playlist = <<>>
    /\ current_index = -1
    /\ playback_state = reset
    /\ mixer_track # ""

\* C18: a tick that finds the clock Playing, the backend not busy and repeat
\* one reloads the current index unchanged: current_index keeps its value,
\* the same track is loaded and played again and the clock is Playing with
\* start_time = now, pause_accum = 0, last_pause = 0 (stated here for the
\* ticks whose load does not raise).
C18_RepeatOneReloads ==
    [][\A res \in LoadResults :
          (CompletionSeen /\ repeat_mode = 1 /\ res.ok /\ UpdateUi(res)) =>
             /\ current_index' = current_index
             /\ freshly_loaded(current_index, playback_state', mixer', mixer_track',
                               now')]_vars

\* C19: completion is polled only while Playing: a tick that runs while the
\* clock is Paused or Stopped never treats the track as ended, busy backend
\* or not, and leaves current_index and every field of the clock unchanged.
C19_NoPollUnlessPlaying ==
    [][\A res \in LoadResults :
          (Phase(playback_state) # "Playing" /\ UpdateUi(res)) =>
             /\ lastCall'.op # "track_end"
             /\ UNCHANGED <<current_index, playback_state, mixer, mixer_track>>]_vars

\* a tick ran during a pause, a second after the pause began, with the
\* backend not busy
C19_Witness ==
    /\ lastCall.op = "tick"
    /\ Phase(playback_state) = "Paused"
    /\ ~get_busy(mixer)
    /\ now > playback_state.last_pause

\* the handlers that end in load_and_play, and those that call stop()
LoadOps == {"play", "next_track", "prev_track", "double_click_play", "track_end"}
StopOps == {"stop", "remove_selected", "clear_playlist"}

\* the phase moves from `from' to `to' in this step
PhaseStep(from, to) == Phase(playback_state) = from /\ Phase(playback_state') = to

\* C20 as stated: every phase change follows the state machine: Stopped ->
\* Playing only by load_and_play, Playing -> Paused only by pause, Paused ->
\* Playing only by resume, Playing/Paused -> Stopped only by stop or the
\* handling of a completion; a seek never changes the phase and Paused is
\* never entered from Stopped.
C20_StateMachine ==
    [][/\ PhaseStep("Stopped", "Playing") => lastCall'.op \in LoadOps
       /\ PhaseStep("Playing", "Paused") => lastCall'.op = "pause"
       /\ PhaseStep("Paused", "Playing") => lastCall'.op = "resume"
       /\ (PhaseStep("Playing", "Stopped") \/ PhaseStep("Paused", "Stopped")) =>
             lastCall'.op \in StopOps \cup {"track_end"}
       /\ ~PhaseStep("Stopped", "Paused")]_vars

\* C20 amended: the same, with Paused -> Playing by resume or by a
\* load_and_play that succeeds (next_track, prev_track, double click), and
\* Playing/Paused -> Stopped only by a handler that calls stop(): the
\* handling of a completion never stops the clock.
C20_StateMachineWithReload ==
    [][/\ PhaseStep("Stopped", "Playing") => lastCall'.op \in LoadOps
       /\ PhaseStep("Playing", "Paused") => lastCall'.op = "pause"
       /\ PhaseStep("Paused", "Playing") =>
             \/ lastCall'.op = "resume"
             \/ /\ lastCall'.op \in LoadOps
                /\ playback_state'.start_time = now'
                /\ playback_state'.pause_accum = 0
                /\ mixer' = "playing"
       /\ (PhaseStep("Playing", "Stopped") \/ PhaseStep("Paused", "Stopped")) =>
             lastCall'.op \in StopOps
       /\ ~PhaseStep("Stopped", "Paused")]_vars

\* a paused track was moved by a seek and then resumed: the clock is Playing
\* again from the position of the seek
C20_Witness ==
    /\ lastCall.op = "resume"
    /\ Phase(playback_state) = "Playing"
    /\ offset = 1
    /\ playback_state.pause_accum > 0

\* C21: whenever the clock is not Paused (Stopped or Playing) last_pause is
\* 0; it is non-zero only while Paused, also after a pause followed by a
\* resume.
C21_LastPauseZeroUnlessPaused ==
    Phase(playback_state) # "Paused" => playback_state.last_pause = 0

\* C22: toggle_shuffle keeps the selected track selected and does not
\* disturb playback: with current_index >= 0 the track under the cursor is
\* the same before and after (at position 0 when shuffle is entered, at its
\* first matching position when it is left), the playlist is a permutation
\* of what it was, current_index = -1 stays -1, and the clock, the backend
\* and repeat_mode are unchanged.
C22_ShuffleKeepsSelection ==
    [][shuffle_mode' # shuffle_mode =>
       \A sh \in Shuffles(apply_shuffle_temp(playlist, current_index)) :
          ToggleShuffle(sh) =>
             /\ BagOf(playlist') = BagOf(playlist)
             /\ current_index >= 0 =>
                   /\ current_index' >= 0
                   /\ playlist'[current_index' + 1] = playlist[current_index + 1]
                   /\ ~shuffle_mode => current_index' = 0
                   /\ shuffle_mode =>
                         current_index' = index_of(playlist', playlist[current_index + 1])
             /\ current_index = -1 => current_index' = -1
             /\ UNCHANGED <<playback_state, mixer, mixer_track, repeat_mode>>]_vars

\* shuffle was entered during a pause with the cursor on the second track:
\* that track now leads the playlist, still selected and still paused
C22_Witness ==
    /\ shuffle_mode
    /\ Len(playlist) = MaxLen
    /\ playlist # original_order
    /\ current_index = 0
    /\ Phase(playback_state) = "Paused"
    /\ mixer_track = playlist[1]
    /\ repeat_mode = 1

\* C23: in every state the player reaches, an empty playlist comes with a
\* Stopped clock.
C23_EmptyImpliesStopped ==
    playlist = <<>> => Phase(playback_state) = "Stopped"

\* the playlist was emptied after a track had been loaded, with the wall
\* clock past start-up
C23_Witness ==
    /\ playlist = <<>>
    /\ mixer_track # ""
    /\ mixer = "idle"
    /\ now > T0

\* C24: whenever the clock is Playing or Paused the cursor is on the track
\* being played: current_index >= 0 and playlist[current_index] is the track
\* the backend loaded last, whatever playlist edits were made in between.
C24_CursorOnPlayingTrack ==
    Phase(playback_state) # "Stopped" =>
       /\ current_index >= 0
       /\ current_index < Len(playlist)
       /\ playlist[current_index + 1] = mixer_track

\* the player is left to itself: the clock is Playing with repeat off, no
\* load raises and the only handler that runs is the tick
LeftPlaying ==
    /\ Phase(playback_state) = "Playing"
    /\ repeat_mode = 0
    /\ ~load_error
    /\ lastCall.op \in {"tick", "track_end"}

\* the backend is playing track t of the playlist
Plays(t) == t \in Range(playlist) /\ mixer = "playing" /\ mixer_track = t

\* C25: the clock goes back to Stopped only through stop (the user's stop,
\* clear_playlist, or a removal that empties the playlist), never through
\* the end of a track; with repeat off the cursor wraps from the last track
\* to 0, so a player left playing, with ticks that keep coming and a backend
\* that finishes every track, plays each track of the playlist again and
\* again.
C25_StoppedOnlyByStop ==
    (PhaseStep("Playing", "Stopped") \/ PhaseStep("Paused", "Stopped")) =>
       lastCall'.op \in {"stop", "remove_selected", "clear_playlist"}

C25_PlaysForever ==
    /\ [][C25_StoppedOnlyByStop]_vars
    /\ \A t \in Files :
          <>[](LeftPlaying /\ t \in Range(playlist)) => []<>Plays(t)

\* the tick has wrapped from the second track back to the first, which is
\* playing without a load error
C25_Witness ==
    /\ lastCall.op = "track_end"
    /\ ~load_error
    /\ repeat_mode = 0
    /\ playlist = <<"a.mp3", "b.OGG">>
    /\ current_index = 0
    /\ Plays("a.mp3")
    /\ played = 0
    /\ now > T0

TypeOK ==
    /\ Len(playlist) <= MaxLenPM
    /\ current_index \in -1..MaxLenPM
    /\ now \in T0..(T0 + LongHorizon)
    /\ running \in BOOLEAN
====
